---- MODULE Spec2Model ----
(***************************************************************************)
(* CCGuide: the stop hook (stop_hook_handler.py), its decision stage       *)
(* (gemini_decision_engine.py) and its suggestion stage                    *)
(* (gemini_suggestion_engine.py), modelled as a state machine.             *)
(*                                                                         *)
(* Text is modelled by strings and the text functions of the code (len,    *)
(* lower, upper, strip, split, `in`, str, float) by operators that compute *)
(* them character by character.                                            *)
(***************************************************************************)
EXTENDS Integers, Sequences, FiniteSets, TLC

(***************************************************************************)
(* Python's text primitives                                                *)
(***************************************************************************)

\* s[i-1] of Python, as a one-character string
CharAt(s, i) == SubSeq(s, i, i)

UpperLetters == "ABCDEFGHIJKLMNOPQRSTUVWXYZ"
LowerLetters == "abcdefghijklmnopqrstuvwxyz"
Digits == "0123456789"

\* the position of character c in alphabet, 0 when it is not in it
IndexIn(c, alphabet) ==
    IF \E i \in 1..Len(alphabet) : CharAt(alphabet, i) = c
    THEN CHOOSE i \in 1..Len(alphabet) : CharAt(alphabet, i) = c
    ELSE 0

LowerChar(c) ==
    LET i == IndexIn(c, UpperLetters) IN IF i = 0 THEN c ELSE CharAt(LowerLetters, i)

UpperChar(c) ==
    LET i == IndexIn(c, LowerLetters) IN IF i = 0 THEN c ELSE CharAt(UpperLetters, i)

\* str.lower()
RECURSIVE Lower(_)
Lower(s) ==
    IF Len(s) = 0 THEN ""
    ELSE IF Len(s) = 1 THEN LowerChar(s)
    ELSE LET m == Len(s) \div 2
         IN  Lower(SubSeq(s, 1, m)) \o Lower(SubSeq(s, m + 1, Len(s)))

\* str.upper()
RECURSIVE Upper(_)
Upper(s) ==
    IF Len(s) = 0 THEN ""
    ELSE IF Len(s) = 1 THEN UpperChar(s)
    ELSE LET m == Len(s) \div 2
         IN  Upper(SubSeq(s, 1, m)) \o Upper(SubSeq(s, m + 1, Len(s)))

\* the characters str.strip() and str.split() treat as whitespace
IsSpace(c) == c \in {" ", "\n", "\t", "\r"}

\* str.strip(): drop the leading and the trailing whitespace
Strip(s) ==
    LET keep == {i \in 1..Len(s) : ~IsSpace(CharAt(s, i))}
    IN  IF keep = {} THEN ""
        ELSE LET first == CHOOSE i \in keep : \A j \in keep : i <= j
                 last  == CHOOSE i \in keep : \A j \in keep : j <= i
             IN  SubSeq(s, first, last)

\* `kw in s`
Contains(s, kw) ==
    \E i \in 1..(Len(s) - Len(kw) + 1) : SubSeq(s, i, i + Len(kw) - 1) = kw

\* any(keyword in s for keyword in keywords)
ContainsAny(s, keywords) == \E kw \in keywords : Contains(s, kw)

\* the start positions of the words of s.split()
WordStarts(s) ==
    {i \in 1..Len(s) : /\ ~IsSpace(CharAt(s, i))
                       /\ (i = 1 \/ IsSpace(CharAt(s, i - 1)))}

\* the word of s.split() that starts at position i
WordAt(s, i) ==
    LET ends == {j \in i..Len(s) : j = Len(s) \/ IsSpace(CharAt(s, j + 1))}
        e    == CHOOSE j \in ends : \A k \in ends : j <= k
    IN  SubSeq(s, i, e)

\* str(n) for a natural number n
RECURSIVE NatToStr(_)
NatToStr(n) ==
    IF n < 10 THEN CharAt(Digits, n + 1)
    ELSE NatToStr(n \div 10) \o CharAt(Digits, (n % 10) + 1)

IsNumeral(s) ==
    /\ Len(s) > 0
    /\ \A i \in 1..Len(s) : IndexIn(CharAt(s, i), Digits) # 0

\* the value of a numeral
RECURSIVE NumeralValue(_)
NumeralValue(s) ==
    IF Len(s) = 0 THEN 0
    ELSE 10 * NumeralValue(SubSeq(s, 1, Len(s) - 1))
         + (IndexIn(CharAt(s, Len(s)), Digits) - 1)

\* s repeated n times
RECURSIVE Repeat(_, _)
Repeat(s, n) ==
    IF n = 0 THEN ""
    ELSE IF n = 1 THEN s
    ELSE LET h == Repeat(s, n \div 2)
         IN  IF n % 2 = 0 THEN h \o h ELSE h \o h \o s

\* ', '.join(names)
RECURSIVE Join(_)
Join(names) ==
    IF Len(names) = 0 THEN ""
    ELSE IF Len(names) = 1 THEN names[1]
    ELSE names[1] \o ", " \o Join(Tail(names))

(***************************************************************************)
(* gemini_decision_engine.py: the cheap analysis and the fallback score    *)
(***************************************************************************)

CodeKeywords == {"def ", "function", "class ", "import ", "const ", "var ", "let "}
ErrorKeywords == {"error", "exception", "failed", "traceback", "syntax error"}
TestingKeywords == {"test", "pytest", "unittest", "jest", "spec"}
GitKeywords == {"git ", "commit", "branch", "merge", "pull request"}
ComplexityWords == {"todo", "fixme", "hack", "temp"}

\* GeminiDecisionEngine.analyze_session_context
analyze_session_context(context) ==
    LET lower == Lower(context)
    IN  [length                |-> Len(context),
         has_code              |-> ContainsAny(lower, CodeKeywords),
         has_errors            |-> ContainsAny(lower, ErrorKeywords),
         has_testing           |-> ContainsAny(lower, TestingKeywords),
         has_git               |-> ContainsAny(lower, GitKeywords),
         complexity_indicators |->
             Cardinality({i \in WordStarts(context) :
                             Lower(WordAt(context, i)) \in ComplexityWords})]

\* the length above which _fallback_decision adds a point
FallbackLengthThreshold == 1000
\* the score from which _fallback_decision suggests
FallbackScoreThreshold == 3

\* code worth one point instead of two
FallbackScore_flat(analysis) ==
      (IF analysis.length > FallbackLengthThreshold THEN 1 ELSE 0)
    + (IF analysis.has_code THEN 1 ELSE 0)
    + (IF analysis.has_errors THEN 1 ELSE 0)
    + (IF analysis.complexity_indicators > 0 THEN 1 ELSE 0)

\* the score of GeminiDecisionEngine._fallback_decision
FallbackScore(analysis) ==
      (IF analysis.length > FallbackLengthThreshold THEN 1 ELSE 0)
    + (IF analysis.has_code THEN 2 ELSE 0)
    + (IF analysis.has_errors THEN 1 ELSE 0)
    + (IF analysis.complexity_indicators > 0 THEN 1 ELSE 0)

\* should_suggest of GeminiDecisionEngine._fallback_decision
FallbackShouldSuggest(analysis) == FallbackScore(analysis) >= FallbackScoreThreshold

\* "YES" in decision, instead of decision == "YES"
ReplyIsYes_substring(text) == Contains(Upper(Strip(text)), "YES")

\* decision == "YES" for decision = response.text.strip().upper()
ReplyIsYes(text) == Upper(Strip(text)) = "YES"

(***************************************************************************)
(* gemini_suggestion_engine.py: the deep analysis and the two texts        *)
(***************************************************************************)

\* language_indicators, in the order of the dict
LanguageIndicators ==
    << [name |-> "python",     indicators |-> {".py", "def ", "import ", "python", "pip", "pytest"}],
       [name |-> "javascript", indicators |-> {".js", ".ts", ".jsx", ".tsx", "function", "const ", "npm", "node"}],
       [name |-> "java",       indicators |-> {".java", "public class", "import java", "maven", "gradle"}],
       [name |-> "c++",        indicators |-> {".cpp", ".h", "#include", "std::", "cmake"}],
       [name |-> "rust",       indicators |-> {".rs", "fn ", "use ", "cargo", "impl "}],
       [name |-> "go",         indicators |-> {".go", "func ", "package ", "import "}],
       [name |-> "html",       indicators |-> {".html", "<html>", "<div>", "<script>"}],
       [name |-> "css",        indicators |-> {".css", "style", "display:", "margin:"}],
       [name |-> "sql",        indicators |-> {".sql", "SELECT", "FROM", "WHERE", "INSERT"}],
       [name |-> "shell",      indicators |-> {".sh", "#!/bin/bash", "chmod", "mkdir"}] >>

\* framework_indicators, in the order of the dict
FrameworkIndicators ==
    << [name |-> "react",      indicators |-> {"react", "jsx", "usestate", "useeffect", "component"}],
       [name |-> "vue",        indicators |-> {"vue", "@click", "v-model", "mounted()"}],
       [name |-> "angular",    indicators |-> {"angular", "@component", "@injectable", "ngmodel"}],
       [name |-> "flask",      indicators |-> {"flask", "app.route", "@app.route", "render_template"}],
       [name |-> "django",     indicators |-> {"django", "models.py", "views.py", "urls.py"}],
       [name |-> "express",    indicators |-> {"express", "app.get", "app.post", "middleware"}],
       [name |-> "spring",     indicators |-> {"spring", "@controller", "@service", "@autowired"}],
       [name |-> "tensorflow", indicators |-> {"tensorflow", "keras", "model.fit", "neural"}],
       [name |-> "pytorch",    indicators |-> {"pytorch", "torch", "nn.module", "tensor"}],
       [name |-> "pandas",     indicators |-> {"pandas", "dataframe", "pd.read", "groupby"}],
       [name |-> "numpy",      indicators |-> {"numpy", "np.array", "ndarray", "matrix"}] >>

\* tool_indicators, in the order of the dict
ToolIndicators ==
    << [name |-> "git",        indicators |-> {"git add", "git commit", "git push", "git pull"}],
       [name |-> "docker",     indicators |-> {"docker", "dockerfile", "docker-compose"}],
       [name |-> "kubernetes", indicators |-> {"kubectl", "k8s", "deployment.yaml"}],
       [name |-> "aws",        indicators |-> {"aws", "ec2", "s3", "lambda", "cloudformation"}],
       [name |-> "ci/cd",      indicators |-> {"github actions", "jenkins", "ci.yml", ".github/workflows"}],
       [name |-> "testing",    indicators |-> {"test", "pytest", "jest", "unittest", "mocha"}],
       [name |-> "linting",    indicators |-> {"eslint", "pylint", "flake8", "prettier"}] >>

\* pattern_indicators, in the order of the dict
PatternIndicators ==
    << [name |-> "api_development",  indicators |-> {"api", "endpoint", "rest", "json", "request", "response"}],
       [name |-> "database_work",    indicators |-> {"database", "sql", "query", "table", "migration"}],
       [name |-> "frontend_work",    indicators |-> {"frontend", "ui", "component", "styling", "responsive"}],
       [name |-> "backend_work",     indicators |-> {"backend", "server", "authentication", "middleware"}],
       [name |-> "data_analysis",    indicators |-> {"data", "analysis", "visualization", "statistics"}],
       [name |-> "machine_learning", indicators |-> {"ml", "model", "training", "prediction", "algorithm"}],
       [name |-> "devops",           indicators |-> {"deployment", "infrastructure", "monitoring", "scaling"}],
       [name |-> "security",         indicators |-> {"authentication", "authorization", "encryption", "security"}] >>

\* issue_patterns, in the order of the dict
IssuePatterns ==
    << [name |-> "hardcoded_credentials",  indicators |-> {"password =", "api_key =", "secret =", "token ="}],
       [name |-> "missing_error_handling", indicators |-> {"except:", "catch", "try:"}],
       [name |-> "code_duplication",       indicators |-> {"todo", "fixme", "hack", "temporary"}],
       [name |-> "performance_concerns",   indicators |-> {"loop", "nested", "n+1", "timeout"}],
       [name |-> "security_concerns",      indicators |-> {"eval(", "exec(", "shell=true", "sql injection"}],
       [name |-> "testing_gaps",           indicators |-> {"# no tests", "untested", "manual testing"}] >>

\* the names of the table entries one of whose indicators is in the lower-cased
\* context, in the order of the table
RECURSIVE DetectIn(_, _)
DetectIn(table, context_lower) ==
    IF Len(table) = 0 THEN << >>
    ELSE LET rest == DetectIn(Tail(table), context_lower)
         IN  IF ContainsAny(context_lower, table[1].indicators)
             THEN << table[1].name >> \o rest
             ELSE rest

\* GeminiSuggestionEngine._detect_languages
detect_languages(context) == DetectIn(LanguageIndicators, Lower(context))

\* GeminiSuggestionEngine._detect_frameworks
detect_frameworks(context) == DetectIn(FrameworkIndicators, Lower(context))

\* GeminiSuggestionEngine._detect_tools
detect_tools(context) == DetectIn(ToolIndicators, Lower(context))

\* the names of the table entries at least two of whose indicators are in the
\* lower-cased context, in the order of the table
RECURSIVE DetectTwoIn(_, _)
DetectTwoIn(table, context_lower) ==
    IF Len(table) = 0 THEN << >>
    ELSE LET rest == DetectTwoIn(Tail(table), context_lower)
             found == {kw \in table[1].indicators : Contains(context_lower, kw)}
         IN  IF Cardinality(found) >= 2 THEN << table[1].name >> \o rest ELSE rest

\* GeminiSuggestionEngine._detect_patterns
detect_patterns(context) == DetectTwoIn(PatternIndicators, Lower(context))

\* GeminiSuggestionEngine._detect_potential_issues
detect_potential_issues(context) == DetectIn(IssuePatterns, Lower(context))

\* the bug test made before the project-setup test
classify_session_type_bug_first(context) ==
    LET context_lower == Lower(context)
    IN  IF ContainsAny(context_lower, {"bug", "fix", "error", "debug"})
        THEN "bug_fixing"
        ELSE IF ContainsAny(context_lower, {"new project", "initial", "setup", "scaffold"})
        THEN "project_setup"
        ELSE IF ContainsAny(context_lower, {"feature", "implement", "add", "create"})
        THEN "feature_development"
        ELSE IF ContainsAny(context_lower, {"refactor", "cleanup", "optimize", "improve"})
        THEN "refactoring"
        ELSE IF ContainsAny(context_lower, {"test", "testing", "spec", "coverage"})
        THEN "testing"
        ELSE IF ContainsAny(context_lower, {"deploy", "release", "production", "ci/cd"})
        THEN "deployment"
        ELSE "general_development"

\* GeminiSuggestionEngine._classify_session_type
classify_session_type(context) ==
    LET context_lower == Lower(context)
    IN  IF ContainsAny(context_lower, {"new project", "initial", "setup", "scaffold"})
        THEN "project_setup"
        ELSE IF ContainsAny(context_lower, {"bug", "fix", "error", "debug"})
        THEN "bug_fixing"
        ELSE IF ContainsAny(context_lower, {"feature", "implement", "add", "create"})
        THEN "feature_development"
        ELSE IF ContainsAny(context_lower, {"refactor", "cleanup", "optimize", "improve"})
        THEN "refactoring"
        ELSE IF ContainsAny(context_lower, {"test", "testing", "spec", "coverage"})
        THEN "testing"
        ELSE IF ContainsAny(context_lower, {"deploy", "release", "production", "ci/cd"})
        THEN "deployment"
        ELSE "general_development"

\* GeminiSuggestionEngine.analyze_session_components
analyze_session_components(context) ==
    [languages    |-> detect_languages(context),
     frameworks   |-> detect_frameworks(context),
     tools        |-> detect_tools(context),
     patterns     |-> detect_patterns(context),
     issues       |-> detect_potential_issues(context),
     session_type |-> classify_session_type(context)]

\* the footer left out
format_suggestions_bare(suggestions, analysis) == suggestions

\* the frameworks clause decided by the languages
format_suggestions_swapped(suggestions, analysis) ==
    suggestions
    \o "\\n\\n---\\n*Session Analysis: " \o analysis.session_type \o "*"
    \o (IF Len(analysis.languages) > 0
        THEN " *| Languages: " \o Join(analysis.languages) \o "*" ELSE "")
    \o (IF Len(analysis.languages) > 0
        THEN " *| Frameworks: " \o Join(analysis.frameworks) \o "*" ELSE "")

\* GeminiSuggestionEngine._format_suggestions (the source writes "\\n": a
\* backslash and an n, not a line break)
format_suggestions(suggestions, analysis) ==
    suggestions
    \o "\\n\\n---\\n*Session Analysis: " \o analysis.session_type \o "*"
    \o (IF Len(analysis.languages) > 0
        THEN " *| Languages: " \o Join(analysis.languages) \o "*" ELSE "")
    \o (IF Len(analysis.frameworks) > 0
        THEN " *| Frameworks: " \o Join(analysis.frameworks) \o "*" ELSE "")

FallbackHeader == "## CCGuide Suggestions\\n\\n"
BugFixingTemplate ==
    "**Bug Fixing Session Detected**\\n"
    \o "- Consider adding tests to prevent regression\\n"
    \o "- Document the root cause in comments\\n"
    \o "- Review error handling around the fix\\n\\n"
FeatureTemplate ==
    "**Feature Development Session Detected**\\n"
    \o "- Write tests before or alongside implementation\\n"
    \o "- Consider breaking down large features into smaller components\\n"
    \o "- Document new functionality\\n\\n"
GenericTemplate ==
    "**Development Session Detected**\\n"
    \o "- Consider adding or updating tests\\n"
    \o "- Review code for security best practices\\n"
    \o "- Ensure proper error handling\\n\\n"
FallbackDisclaimer ==
    "\\n*CCGuide AI suggestions temporarily unavailable - using fallback guidance*"

\* the generic template never chosen
generate_fallback_suggestions_no_generic(analysis) ==
    FallbackHeader
    \o (IF analysis.session_type = "bug_fixing" THEN BugFixingTemplate
        ELSE FeatureTemplate)
    \o (IF Len(analysis.languages) > 0
        THEN "**Technologies Used:** " \o Join(analysis.languages) \o "\\n" ELSE "")
    \o FallbackDisclaimer

\* GeminiSuggestionEngine._generate_fallback_suggestions (the header's emoji
\* is left out of the text)
generate_fallback_suggestions(analysis) ==
    FallbackHeader
    \o (IF analysis.session_type = "bug_fixing" THEN BugFixingTemplate
        ELSE IF analysis.session_type = "feature_development" THEN FeatureTemplate
        ELSE GenericTemplate)
    \o (IF Len(analysis.languages) > 0
        THEN "**Technologies Used:** " \o Join(analysis.languages) \o "\\n" ELSE "")
    \o FallbackDisclaimer


(***************************************************************************)
(* The environment: the clock, the files and the remote model              *)
(***************************************************************************)

\* the hook invocations (processes) that can run
Procs == {1, 2}

\* Python's None, where a string is expected
None == "None"

\* the first and the last value of the clock, in seconds
Epoch == 8
MaxTime == 10

\* the values a config file gives to min_session_length and suggestion_cooldown
LongMinLength == 1200
ShortCooldown == 2

\* config.get(key, default)
Get(cfg, key, default) == IF key \in DOMAIN cfg THEN cfg[key] ELSE default

\* dict.update: the entries of other over those of base
Update(base, other) ==
    [k \in DOMAIN base \cup DOMAIN other |->
        IF k \in DOMAIN other THEN other[k] ELSE base[k]]

\* isinstance(v, (int, float)) for the values a config holds: numbers print
\* as numerals, strings do not
IsNumber(v) == IsNumeral(ToString(v))

\* a dict with no entry
EmptyDict == [k \in {} |-> TRUE]

\* the optional entries of a config file
OptionalEntry(key, values) == {EmptyDict} \cup {(key :> v) : v \in values}

\* the contents ~/.ccguide/config.json can have: no file, a file json.load
\* rejects, or a JSON object with some of the four keys
NoConfigFile == [kind |-> "absent", data |-> EmptyDict]
InvalidConfigFile == [kind |-> "invalid", data |-> EmptyDict]
JsonConfigFile(data) == [kind |-> "json", data |-> data]
\* a config file whose suggestion_cooldown is a JSON string
MistypedConfigFile ==
    JsonConfigFile(("gemini_api_key" :> "key") @@ ("enable_suggestions" :> TRUE)
                   @@ ("suggestion_cooldown" :> "soon"))
ConfigFiles ==
    {NoConfigFile, InvalidConfigFile}
    \cup {JsonConfigFile(k @@ e) :
            k \in OptionalEntry("gemini_api_key", {"", "key"}),
            e \in OptionalEntry("enable_suggestions", {TRUE, FALSE})}
    \cup {JsonConfigFile(("gemini_api_key" :> "key") @@ m @@ c) :
            m \in OptionalEntry("min_session_length", {LongMinLength}),
            c \in OptionalEntry("suggestion_cooldown", {ShortCooldown})}
    \cup {MistypedConfigFile}

\* a config file with GEMINI_API_KEY in the environment or not; the variable
\* is varied where the file does not override it
Installations ==
    {<<f, k>> \in ConfigFiles \X {None, "key"} :
        "gemini_api_key" \in DOMAIN f.data => k = None}

\* the transcript files on disk
TranscriptFiles ==
    << [path |-> "empty.txt",   text |-> ""],
       [path |-> "blank.txt",   text |-> " \n"],
       [path |-> "a50.txt",     text |-> Repeat("a", 50)],
       [path |-> "short.txt",   text |-> "def f(): raise Error # TODO fix"],
       [path |-> "a100.txt",    text |-> Repeat("a", 100)],
       [path |-> "code.txt",    text |-> "Traceback: IMPORT failed\n" \o Repeat("a", 100)],
       [path |-> "code1000.txt", text |-> "import " \o Repeat("a", 993)],
       [path |-> "code1001.txt", text |-> "class " \o Repeat("a", 995)],
       [path |-> "calc.txt",
        text |-> Repeat("def calculate(): ... ", 50) \o "error error error"],
       [path |-> "todos.txt",   text |-> "it failed, see the todos " \o Repeat("b", 1000)],
       [path |-> "todo.txt",    text |-> "it failed, see the\tTODO\n" \o Repeat("b", 1000)],
       [path |-> "setup.txt",
        text |-> "New Project: scaffold the app, then fix the bug " \o Repeat("z", 100)],
       [path |-> "feature.txt",
        text |-> "Implement the React component with useState " \o Repeat("z", 100)],
       [path |-> "refactor.txt",
        text |-> "Refactor and cleanup the Django views.py module " \o Repeat("z", 100)],
       [path |-> "testing.txt", text |-> "Coverage of the spec is low " \o Repeat("z", 100)],
       [path |-> "deploy.txt",
        text |-> "Release to production with Docker " \o Repeat("z", 100)],
       [path |-> "sql.txt",
        text |-> "SELECT name FROM users WHERE id = 1 " \o Repeat("z", 100)] >>

ExistingPaths == {TranscriptFiles[i].path : i \in DOMAIN TranscriptFiles}

\* the values of TRANSCRIPT_PATH / sys.argv[2]: none given, a file that does
\* not exist, a file that does
TranscriptPaths == {"", "missing.txt"} \cup ExistingPaths

\* the text of the file at an existing path
FileText(path) ==
    LET i == CHOOSE j \in DOMAIN TranscriptFiles : TranscriptFiles[j].path = path
    IN  TranscriptFiles[i].text

\* the texts of the transcripts on disk
TranscriptTexts == {TranscriptFiles[i].text : i \in DOMAIN TranscriptFiles}

\* analyze_session_context and analyze_session_components of every transcript
\* on disk, computed once
CheapAnalyses == [text \in TranscriptTexts |-> analyze_session_context(text)]
DeepAnalyses == [text \in TranscriptTexts |-> analyze_session_components(text)]

\* what response.text of the remote classifier can be
ClassifierReplies == {"YES", "NO", " Yes\n", "yes please", ""}

\* what response.text of the remote generator can be
GeneratorReplies == {" ## Suggestions\n- add tests\n", "", " \n"}

\* the contents ~/.ccguide/last_suggestion.txt can start with
AbsentFile == [exists |-> FALSE, text |-> ""]
TextFile(text) == [exists |-> TRUE, text |-> text]
InitialCooldownFiles ==
    {AbsentFile, TextFile("not a number"), TextFile(NatToStr(Epoch - 1) \o "\n"),
     TextFile(NatToStr(MaxTime + 1))}

(***************************************************************************)
(* stop_hook_handler.py: configuration                                     *)
(***************************************************************************)

DefaultMinSessionLength == 100
DefaultSuggestionCooldown == 300

\* default_config of CCGuide.load_config (the two model names are left out:
\* no decision reads them)
default_config(env_key) ==
    [gemini_api_key      |-> env_key,
     enable_suggestions  |-> TRUE,
     min_session_length  |-> DefaultMinSessionLength,
     suggestion_cooldown |-> DefaultSuggestionCooldown]

\* CCGuide.load_config: the file's entries over the defaults; the defaults
\* alone when there is no file or json.load fails
load_config(file, env_key) ==
    IF file.kind = "json"
    THEN Update(default_config(env_key), file.data)
    ELSE default_config(env_key)

\* `api_key is None` instead of `not api_key`
ApiKeyMissing_none_only(cfg) == Get(cfg, "gemini_api_key", None) = None

\* `not api_key` in CCGuide.setup_gemini
ApiKeyMissing(cfg) ==
    LET api_key == Get(cfg, "gemini_api_key", None)
    IN  api_key = None \/ api_key = ""

(***************************************************************************)
(* gemini_decision_engine.py: the cooldown store and the pre-checks        *)
(***************************************************************************)

EngineDefaultMinLength == 100
EngineDefaultCooldown == 300

\* `<=` instead of `<`: still in cooldown when exactly suggestion_cooldown
\* seconds have passed
is_in_cooldown_inclusive(file, read_ok, time, cfg) ==
    IF ~file.exists THEN FALSE
    ELSE IF ~read_ok THEN FALSE
    ELSE LET text == Strip(file.text)
         IN  IF ~IsNumeral(text) THEN FALSE
             ELSE time - NumeralValue(text) <= Get(cfg, "suggestion_cooldown", 300)

\* the file never looked at
is_in_cooldown_never(file, read_ok, time, cfg) == FALSE

\* a failure to read or to parse the file taken as "in cooldown"
is_in_cooldown_fail_closed(file, read_ok, time, cfg) ==
    IF ~file.exists THEN FALSE
    ELSE IF ~read_ok THEN TRUE
    ELSE LET text == Strip(file.text)
         IN  IF ~IsNumeral(text) THEN TRUE
             ELSE time - NumeralValue(text) < Get(cfg, "suggestion_cooldown", 300)

\* GeminiDecisionEngine.is_in_cooldown: read_ok is whether read_text()
\* returns; float() raises on a text that is no number; every exception is
\* caught and the result is then False
is_in_cooldown(file, read_ok, time, cfg) ==
    IF ~file.exists THEN FALSE
    ELSE IF ~read_ok THEN FALSE
    ELSE LET text == Strip(file.text)
         IN  IF ~IsNumeral(text) THEN FALSE
             ELSE LET time_since_last == time - NumeralValue(text)
                  IN  time_since_last < Get(cfg, "suggestion_cooldown", EngineDefaultCooldown)

\* the ways write_text() in update_cooldown can end: written; failed before
\* the file was opened; failed after the file was opened (and truncated)
WriteOutcomes == {"ok", "failed", "failed_truncated"}

\* the timestamp never written
update_cooldown_stale(file, outcome, time) == file

\* GeminiDecisionEngine.update_cooldown: the file afterwards; the exception
\* of a failed write is caught
update_cooldown(file, outcome, time) ==
    IF outcome = "ok" THEN TextFile(NatToStr(time))
    ELSE IF outcome = "failed_truncated" THEN TextFile("")
    ELSE file

\* the enable check left out
SuggestionsDisabled_skipped(cfg) == FALSE

\* the length compared with the default, whatever the config says
SessionTooShort_default(cfg, context) == Len(context) < EngineDefaultMinLength

\* the first two checks of GeminiDecisionEngine.should_suggest
SuggestionsDisabled(cfg) == ~Get(cfg, "enable_suggestions", TRUE)
SessionTooShort(cfg, context) ==
    Len(context) < Get(cfg, "min_session_length", EngineDefaultMinLength)


(***************************************************************************)
(* The state                                                               *)
(***************************************************************************)

VARIABLES
    now,               \* time.time()
    cooldown_file,     \* ~/.ccguide/last_suggestion.txt
    config_file,       \* ~/.ccguide/config.json
    env_api_key,       \* os.getenv('GEMINI_API_KEY')
    pc,                \* where each invocation of main is
    transcript_path,   \* main's transcript_path
    assistant,         \* main's assistant: "None" until CCGuide() has returned
    config,            \* CCGuide.config, once loaded
    session_context,   \* the transcript process_stop_hook read
    cooldown_check,    \* what is_in_cooldown saw and answered in this invocation
    classifier,        \* the remote classifier call of this invocation
    should_suggest,    \* what should_suggest returned: "None" before it has
    cooldown_write,    \* the update_cooldown of this invocation
    generator,         \* the remote generator call of this invocation
    session_analysis,  \* analysis in generate_contextual_suggestions
    suggestion,        \* what generate_contextual_suggestions returned
    exception,         \* the exception main's except branch caught: "None" if none
    stdout,            \* the JSON objects main printed
    cli_log,           \* the last runs of the ccguide command
    last_true_at,      \* when should_suggest last returned True, -1 if never
    recorded_at        \* the time the last update_cooldown wrote, -1 if it
                       \* failed or none was made

env == <<cooldown_file, config_file, env_api_key>>
locals == <<transcript_path, assistant, config, session_context, cooldown_check, classifier,
            should_suggest, cooldown_write, generator, session_analysis, suggestion, exception>>
history == <<last_true_at, recorded_at>>
vars == <<now, env, pc, locals, stdout, history, cli_log>>

NoCheck == [done |-> FALSE, file |-> AbsentFile, read_ok |-> TRUE, at |-> 0,
            result |-> FALSE, last_true_at |-> -1, recorded_at |-> -1]
NoCall == [calls |-> 0, state |-> "none", reply |-> ""]
NoWrite == [outcome |-> "none", at |-> 0]
NoAnalysis == [languages |-> << >>, frameworks |-> << >>, tools |-> << >>,
               patterns |-> << >>, issues |-> << >>, session_type |-> "None"]

Init ==
    /\ now = Epoch
    /\ cooldown_file \in InitialCooldownFiles
    /\ \E inst \in Installations : config_file = inst[1] /\ env_api_key = inst[2]
    /\ pc = [p \in Procs |-> "idle"]
    /\ transcript_path = [p \in Procs |-> ""]
    /\ assistant = [p \in Procs |-> "None"]
    /\ config = [p \in Procs |-> EmptyDict]
    /\ session_context = [p \in Procs |-> ""]
    /\ cooldown_check = [p \in Procs |-> NoCheck]
    /\ classifier = [p \in Procs |-> NoCall]
    /\ should_suggest = [p \in Procs |-> "None"]
    /\ cooldown_write = [p \in Procs |-> NoWrite]
    /\ generator = [p \in Procs |-> NoCall]
    /\ session_analysis = [p \in Procs |-> NoAnalysis]
    /\ suggestion = [p \in Procs |-> ""]
    /\ exception = [p \in Procs |-> "None"]
    /\ stdout = [p \in Procs |-> << >>]
    /\ last_true_at = -1
    /\ recorded_at = -1
    /\ cli_log = << >>

(***************************************************************************)
(* stop_hook_handler.py: main and CCGuide.process_stop_hook                *)
(***************************************************************************)

\* the result printed twice
Emit_twice(p, result) == stdout' = [stdout EXCEPT ![p] = Append(Append(@, result), result)]

\* print(json.dumps(result)) by process p
Emit(p, result) == stdout' = [stdout EXCEPT ![p] = Append(@, result)]

\* the result of main's except branch
ErrorResult(message) == [block |-> FALSE, error |-> "Hook handler failed: " \o message]

\* what process_stop_hook returns when it has nothing to say
NoSuggestionResult == [block |-> FALSE]

\* a result that blocks the session
SuggestionResult_blocking(text) ==
    IF text # ""
    THEN [block |-> TRUE, context |-> text, reason |-> "CCGuide suggestions available"]
    ELSE [block |-> FALSE]

\* a result without its reason
SuggestionResult_no_reason(text) ==
    IF text # "" THEN [block |-> FALSE, context |-> text] ELSE [block |-> FALSE]

\* what process_stop_hook returns for the text of the suggestion stage
SuggestionResult(text) ==
    IF text # ""
    THEN [block |-> FALSE, context |-> text, reason |-> "CCGuide suggestions available"]
    ELSE [block |-> FALSE]

\* the exception leaves main and the process ends with a traceback
MainExcept_reraises(p, message) ==
    /\ exception' = [exception EXCEPT ![p] = message]
    /\ pc' = [pc EXCEPT ![p] = "crashed"]
    /\ UNCHANGED stdout

\* main's except branch, lines 238-244: an exception that reaches main is
\* turned into the error result, which main prints, and main returns
MainExcept(p, message) ==
    /\ exception' = [exception EXCEPT ![p] = message]
    /\ Emit(p, ErrorResult(message))
    /\ pc' = [pc EXCEPT ![p] = "exited"]

\* main, up to the construction of the handler: the transcript path is read
\* from the environment or the arguments; without one main prints an error
\* result and returns
MainStart(p, path) ==
    /\ pc[p] = "idle"
    /\ transcript_path' = [transcript_path EXCEPT ![p] = path]
    /\ IF path = ""
       THEN /\ Emit(p, [block |-> FALSE, error |-> "No transcript path provided"])
            /\ pc' = [pc EXCEPT ![p] = "exited"]
       ELSE /\ pc' = [pc EXCEPT ![p] = "construct"]
            /\ UNCHANGED stdout
    /\ UNCHANGED <<cli_log, now, env, assistant, config, session_context, cooldown_check,
                   classifier, should_suggest, cooldown_write, generator, suggestion,
                   session_analysis, exception, history>>

\* CCGuide(): setup_logging (which raises when ~/.ccguide cannot be made or the
\* log cannot be opened), load_config, setup_gemini (which raises without an
\* API key); main's except branch prints the error result
Construct(p, logging_ok) ==
    /\ pc[p] = "construct"
    /\ LET cfg == load_config(config_file, env_api_key)
       IN  IF ~logging_ok
           THEN /\ MainExcept(p, "cannot set up logging")
                /\ UNCHANGED <<assistant, config>>
           ELSE IF ApiKeyMissing(cfg)
           THEN /\ MainExcept(p, "GEMINI_API_KEY not found in config or environment")
                /\ config' = [config EXCEPT ![p] = cfg]
                /\ UNCHANGED assistant
           ELSE /\ pc' = [pc EXCEPT ![p] = "read"]
                /\ config' = [config EXCEPT ![p] = cfg]
                /\ assistant' = [assistant EXCEPT ![p] = "CCGuide"]
                /\ UNCHANGED <<stdout, exception>>
    /\ UNCHANGED <<cli_log, now, env, transcript_path, session_context, cooldown_check,
                   classifier, should_suggest, cooldown_write, generator, suggestion,
                   session_analysis, history>>

\* a placeholder instead of "" when the file cannot be read
read_transcript_placeholder(path) == IF path \in ExistingPaths THEN FileText(path) ELSE " "

\* CCGuide.read_transcript: the text of the file, "" when open() or read() fails
read_transcript(path) == IF path \in ExistingPaths THEN FileText(path) ELSE ""

\* process_stop_hook, lines 196-199: the transcript is read; an empty one ends
\* the run with {"block": False}, which main prints
ReadTranscript(p) ==
    /\ pc[p] = "read"
    /\ LET content == read_transcript(transcript_path[p])
       IN  /\ session_context' = [session_context EXCEPT ![p] = content]
           /\ IF content = ""
              THEN /\ Emit(p, NoSuggestionResult)
                   /\ pc' = [pc EXCEPT ![p] = "exited"]
              ELSE /\ pc' = [pc EXCEPT ![p] = "should_suggest"]
                   /\ UNCHANGED stdout
    /\ UNCHANGED <<cli_log, now, env, transcript_path, assistant, config, cooldown_check,
                   classifier, should_suggest, cooldown_write, generator, suggestion,
                   session_analysis, exception, history>>


(***************************************************************************)
(* gemini_decision_engine.py: should_suggest                               *)
(***************************************************************************)

\* process_stop_hook with a decision of False: {"block": False}, which main
\* prints
ReturnNoSuggestion(p) ==
    /\ should_suggest' = [should_suggest EXCEPT ![p] = "False"]
    /\ Emit(p, NoSuggestionResult)
    /\ pc' = [pc EXCEPT ![p] = "exited"]

\* the message of the TypeError line 26 raises on a suggestion_cooldown that
\* is a string
CooldownTypeError == "unsupported operand type(s) for /: 'str' and 'int'"

\* should_suggest, lines 71-121: the three pre-checks, each of which returns
\* False, and then the call of the remote classifier; read_ok is whether the
\* cooldown file can be read in this call. is_in_cooldown divides
\* suggestion_cooldown by 60 outside its try (line 26): on a value that is no
\* number the TypeError travels up to main
ShouldSuggestBegin(p, read_ok) ==
    /\ pc[p] = "should_suggest"
    /\ IF SuggestionsDisabled(config[p]) \/ SessionTooShort(config[p], session_context[p])
       THEN /\ ReturnNoSuggestion(p)
            /\ UNCHANGED <<cooldown_check, classifier, exception>>
       ELSE IF ~IsNumber(Get(config[p], "suggestion_cooldown", EngineDefaultCooldown))
       THEN /\ MainExcept(p, CooldownTypeError)
            /\ UNCHANGED <<cooldown_check, classifier, should_suggest>>
       ELSE LET in_cooldown == is_in_cooldown(cooldown_file, read_ok, now, config[p])
            IN  /\ cooldown_check' = [cooldown_check EXCEPT ![p] =
                       [done |-> TRUE, file |-> cooldown_file, read_ok |-> read_ok,
                        at |-> now, result |-> in_cooldown,
                        last_true_at |-> last_true_at, recorded_at |-> recorded_at]]
                /\ UNCHANGED exception
                /\ IF in_cooldown
                   THEN /\ ReturnNoSuggestion(p)
                        /\ UNCHANGED classifier
                   ELSE /\ classifier' = [classifier EXCEPT ![p] =
                               [calls |-> @.calls + 1, state |-> "pending", reply |-> ""]]
                        /\ pc' = [pc EXCEPT ![p] = "classifier"]
                        /\ UNCHANGED <<should_suggest, stdout>>
    /\ UNCHANGED <<cli_log, now, env, transcript_path, assistant, config, session_context,
                   cooldown_write, generator, session_analysis, suggestion, history>>

\* update_cooldown forgotten on the way to True
Decide_without_record(p, decision) ==
    IF decision
    THEN /\ should_suggest' = [should_suggest EXCEPT ![p] = "True"]
         /\ last_true_at' = now
         /\ pc' = [pc EXCEPT ![p] = "suggestion"]
         /\ UNCHANGED <<cooldown_file, cooldown_write, recorded_at, stdout>>
    ELSE /\ should_suggest' = [should_suggest EXCEPT ![p] = "False"]
         /\ stdout' = [stdout EXCEPT ![p] = Append(@, [block |-> FALSE])]
         /\ pc' = [pc EXCEPT ![p] = "exited"]
         /\ UNCHANGED <<cooldown_file, cooldown_write, history>>

\* update_cooldown called whatever the decision
Decide_records_always(p, decision) ==
    \E outcome \in WriteOutcomes :
        /\ cooldown_file' = update_cooldown(cooldown_file, outcome, now)
        /\ cooldown_write' = [cooldown_write EXCEPT ![p] =
               [outcome |-> outcome, at |-> now]]
        /\ recorded_at' = IF outcome = "ok" THEN now ELSE -1
        /\ IF decision
           THEN /\ last_true_at' = now
                /\ should_suggest' = [should_suggest EXCEPT ![p] = "True"]
                /\ pc' = [pc EXCEPT ![p] = "suggestion"]
                /\ UNCHANGED stdout
           ELSE /\ ReturnNoSuggestion(p)
                /\ UNCHANGED last_true_at

\* the end of should_suggest, on either path: a decision of True calls
\* update_cooldown and hands over to the suggestion stage, a decision of
\* False ends the run
Decide(p, decision) ==
    IF decision
    THEN \E outcome \in WriteOutcomes :
            /\ cooldown_file' = update_cooldown(cooldown_file, outcome, now)
            /\ cooldown_write' = [cooldown_write EXCEPT ![p] =
                   [outcome |-> outcome, at |-> now]]
            /\ recorded_at' = IF outcome = "ok" THEN now ELSE -1
            /\ last_true_at' = now
            /\ should_suggest' = [should_suggest EXCEPT ![p] = "True"]
            /\ pc' = [pc EXCEPT ![p] = "suggestion"]
            /\ UNCHANGED stdout
    ELSE /\ ReturnNoSuggestion(p)
         /\ UNCHANGED <<cooldown_file, cooldown_write, history>>

\* should_suggest, lines 123-134: the classifier answers with text
ClassifierReturns(p, text) ==
    /\ pc[p] = "classifier"
    /\ classifier' = [classifier EXCEPT ![p].state = "replied", ![p].reply = text]
    /\ Decide(p, ReplyIsYes(text))
    /\ UNCHANGED <<cli_log, now, config_file, env_api_key, transcript_path, assistant, config,
                   session_context, cooldown_check, generator, session_analysis, suggestion,
                   exception>>

\* the classifier called again after a failure
ClassifierRaises_retries(p) ==
    /\ pc[p] = "classifier"
    /\ classifier' = [classifier EXCEPT ![p] =
           [calls |-> @.calls + 1, state |-> "pending", reply |-> ""]]
    /\ UNCHANGED <<cli_log, now, env, pc, transcript_path, assistant, config, session_context,
                   cooldown_check, should_suggest, cooldown_write, generator,
                   session_analysis, suggestion, exception, stdout, history>>

\* should_suggest, lines 136-139, and _fallback_decision: generate_content or
\* response.text raises
ClassifierRaises(p) ==
    /\ pc[p] = "classifier"
    /\ classifier' = [classifier EXCEPT ![p].state = "raised"]
    /\ Decide(p, FallbackShouldSuggest(CheapAnalyses[session_context[p]]))
    /\ UNCHANGED <<cli_log, now, config_file, env_api_key, transcript_path, assistant, config,
                   session_context, cooldown_check, generator, session_analysis, suggestion,
                   exception>>

(***************************************************************************)
(* gemini_suggestion_engine.py: generate_contextual_suggestions            *)
(***************************************************************************)

\* process_stop_hook, lines 207-217, with the text of the suggestion stage
ReturnSuggestion(p, text) ==
    /\ suggestion' = [suggestion EXCEPT ![p] = text]
    /\ Emit(p, SuggestionResult(text))
    /\ pc' = [pc EXCEPT ![p] = "exited"]

\* generate_contextual_suggestions, lines 175-180: the generator answers
GeneratorReturns(p, text) ==
    /\ pc[p] = "suggestion"
    /\ generator' = [generator EXCEPT ![p] =
           [calls |-> @.calls + 1, state |-> "replied", reply |-> text]]
    /\ session_analysis' = [session_analysis EXCEPT ![p] = DeepAnalyses[session_context[p]]]
    /\ ReturnSuggestion(p, format_suggestions(Strip(text), DeepAnalyses[session_context[p]]))
    /\ UNCHANGED <<cli_log, now, env, transcript_path, assistant, config, session_context,
                   cooldown_check, classifier, should_suggest, cooldown_write,
                   exception, history>>

\* generate_contextual_suggestions, lines 182-184: generate_content or
\* response.text raises
GeneratorRaises(p) ==
    /\ pc[p] = "suggestion"
    /\ generator' = [generator EXCEPT ![p] =
           [calls |-> @.calls + 1, state |-> "raised", reply |-> ""]]
    /\ session_analysis' = [session_analysis EXCEPT ![p] = DeepAnalyses[session_context[p]]]
    /\ ReturnSuggestion(p, generate_fallback_suggestions(DeepAnalyses[session_context[p]]))
    /\ UNCHANGED <<cli_log, now, env, transcript_path, assistant, config, session_context,
                   cooldown_check, classifier, should_suggest, cooldown_write,
                   exception, history>>

(***************************************************************************)
(* The invocations and the clock                                           *)
(***************************************************************************)

\* the process of an invocation ends; the next invocation starts afresh
Exit(p) ==
    /\ pc[p] = "exited"
    /\ pc' = [pc EXCEPT ![p] = "idle"]
    /\ transcript_path' = [transcript_path EXCEPT ![p] = ""]
    /\ assistant' = [assistant EXCEPT ![p] = "None"]
    /\ config' = [config EXCEPT ![p] = EmptyDict]
    /\ session_context' = [session_context EXCEPT ![p] = ""]
    /\ cooldown_check' = [cooldown_check EXCEPT ![p] = NoCheck]
    /\ classifier' = [classifier EXCEPT ![p] = NoCall]
    /\ should_suggest' = [should_suggest EXCEPT ![p] = "None"]
    /\ cooldown_write' = [cooldown_write EXCEPT ![p] = NoWrite]
    /\ generator' = [generator EXCEPT ![p] = NoCall]
    /\ session_analysis' = [session_analysis EXCEPT ![p] = NoAnalysis]
    /\ suggestion' = [suggestion EXCEPT ![p] = ""]
    /\ exception' = [exception EXCEPT ![p] = "None"]
    /\ stdout' = [stdout EXCEPT ![p] = << >>]
    /\ UNCHANGED <<cli_log, now, env, history>>

\* a second passes
Tick ==
    /\ now < MaxTime
    /\ now' = now + 1
    /\ UNCHANGED <<env, pc, locals, stdout, history, cli_log>>

\* the steps of invocation p
Hook(p) ==
    \/ \E path \in TranscriptPaths : MainStart(p, path)
    \/ \E logging_ok \in BOOLEAN : Construct(p, logging_ok)
    \/ ReadTranscript(p)
    \/ \E read_ok \in BOOLEAN : ShouldSuggestBegin(p, read_ok)
    \/ \E text \in ClassifierReplies : ClassifierReturns(p, text)
    \/ ClassifierRaises(p)
    \/ \E text \in GeneratorReplies : GeneratorReturns(p, text)
    \/ GeneratorRaises(p)
    \/ Exit(p)

\* the intended use: one invocation at a time
Next == Hook(1) \/ Tick

Spec == Init /\ [][Next]_vars

\* a step of invocation p once main has started and before it has returned
Running(p) == pc[p] \notin {"idle", "exited"} /\ Hook(p)

\* the same runs, where a started process is scheduled and each remote call
\* returns or raises in the end: a step of a running invocation that stays
\* possible is taken
FairSpec == Spec /\ \A p \in Procs : WF_vars(Running(p))

(***************************************************************************)
(* Two invocations at once                                                 *)
(***************************************************************************)

\* the transcripts of the two invocations, and what the classifier answers
RacePaths == {"calc.txt", "a50.txt"}
RaceClassifierReplies == {"YES", "NO"}

\* the default configuration, the key in the environment
InitRace ==
    /\ Init
    /\ config_file = NoConfigFile
    /\ env_api_key = "key"

\* the steps of invocation p, made once
HookOnce(p) ==
    \/ \E path \in RacePaths : MainStart(p, path)
    \/ \E logging_ok \in BOOLEAN : Construct(p, logging_ok)
    \/ ReadTranscript(p)
    \/ \E read_ok \in BOOLEAN : ShouldSuggestBegin(p, read_ok)
    \/ \E text \in RaceClassifierReplies : ClassifierReturns(p, text)
    \/ ClassifierRaises(p)
    \/ \E text \in GeneratorReplies : GeneratorReturns(p, text)
    \/ GeneratorRaises(p)

\* two hook processes started by two sessions that end together: their steps
\* interleave, and nothing locks the cooldown file
NextRace == HookOnce(1) \/ HookOnce(2) \/ Tick

SpecRace == InitRace /\ [][NextRace]_vars

(***************************************************************************)
(* The deep analysis on its own                                            *)
(***************************************************************************)

\* words in various letter cases: keywords of the session types and
\* indicators of the four tables
SampleWords ==
    {"Setup", "BUG", "Feature", "refactor", "Testing", "deploy", "plain",
     "SELECT", "from", "Where", "INSERT", ".SQL", "React", "Docker", "TODO", "Import"}

\* the texts analysed: the empty one, one word, two words
SampleTexts ==
    {""} \cup SampleWords \cup {w1 \o " " \o w2 : w1 \in SampleWords, w2 \in SampleWords}

\* analyze_session_components of every text analysed, computed once
SampleAnalyses == [text \in SampleTexts |-> analyze_session_components(text)]

\* one installation, no invocation running
InitAnalysis ==
    /\ Init
    /\ cooldown_file = AbsentFile
    /\ config_file = NoConfigFile
    /\ env_api_key = "key"

\* analysis = self.analyze_session_components(session_context), line 168, on
\* a text
AnalyzeSession(p, text) ==
    /\ session_context' = [session_context EXCEPT ![p] = text]
    /\ session_analysis' = [session_analysis EXCEPT ![p] = SampleAnalyses[text]]
    /\ UNCHANGED <<cli_log, now, env, pc, transcript_path, assistant, config, cooldown_check,
                   classifier, should_suggest, cooldown_write, generator, suggestion,
                   exception, stdout, history>>

NextAnalysis == \E text \in SampleTexts : AnalyzeSession(1, text)

SpecAnalysis == InitAnalysis /\ [][NextAnalysis]_vars

(***************************************************************************)
(* cli/ccguide_cli.py: the ccguide command on the same config file         *)
(***************************************************************************)

\* how many runs of the command the log keeps
LogLength == 2

\* the ways save_config can end: written; failed before the file was opened
\* (mkdir or open raised); failed after open(..., 'w') truncated the file
SaveOutcomes == {"ok", "failed", "failed_truncated"}

\* what a method of CCGuideCLI leaves behind: the config file, the exit code
\* of the process (0 when the method returns) and the 'enabled' entry of the
\* status it computed, FALSE where it computes none
CliResult(file, exit, enabled) == [file |-> file, exit |-> exit, enabled |-> enabled]

\* CCGuideCLI.load_config: whether it returns; it exits with 1 on a missing
\* or unparsable file, and returns the parsed object as it is otherwise
CliLoads(file) == file.kind = "json"

\* CCGuideCLI.save_config: the file afterwards
save_config(file, cfg, outcome) ==
    IF outcome = "ok" THEN JsonConfigFile(cfg)
    ELSE IF outcome = "failed_truncated" THEN InvalidConfigFile
    ELSE file

\* the exit code after save_config: it exits with 1 when the write raised
SaveExit(outcome) == IF outcome = "ok" THEN 0 ELSE 1

\* CCGuideCLI.get_status
get_status(file) ==
    IF ~CliLoads(file) THEN CliResult(file, 1, FALSE)
    ELSE CliResult(file, 0, Get(file.data, "enable_suggestions", FALSE))

\* CCGuideCLI.enable
enable(file, outcome) ==
    IF ~CliLoads(file) THEN CliResult(file, 1, FALSE)
    ELSE IF Get(file.data, "enable_suggestions", FALSE)
         THEN CliResult(file, 0, FALSE)
         ELSE LET cfg == Update(file.data, ("enable_suggestions" :> TRUE))
              IN  CliResult(save_config(file, cfg, outcome), SaveExit(outcome), FALSE)

\* CCGuideCLI.disable
disable(file, outcome) ==
    IF ~CliLoads(file) THEN CliResult(file, 1, FALSE)
    ELSE IF ~Get(file.data, "enable_suggestions", TRUE)
         THEN CliResult(file, 0, FALSE)
         ELSE LET cfg == Update(file.data, ("enable_suggestions" :> FALSE))
              IN  CliResult(save_config(file, cfg, outcome), SaveExit(outcome), FALSE)

\* the current state read with the default of get_status: an absent key
\* taken as disabled
toggle_absent_is_disabled(file, outcome) ==
    IF ~CliLoads(file) THEN CliResult(file, 1, FALSE)
    ELSE IF Get(file.data, "enable_suggestions", FALSE)
         THEN disable(file, outcome)
         ELSE enable(file, outcome)

\* CCGuideCLI.toggle: disable and enable load the file again
toggle(file, outcome) ==
    IF ~CliLoads(file) THEN CliResult(file, 1, FALSE)
    ELSE LET current_state == Get(file.data, "enable_suggestions", TRUE)
         IN  IF current_state THEN disable(file, outcome)
             ELSE enable(file, outcome)

\* the log with one more run, the oldest dropped beyond LogLength
Logged(log, entry) ==
    LET all == Append(log, entry)
    IN  IF Len(all) > LogLength THEN Tail(all) ELSE all

\* one run of the command: the method acts on the config file
CliRun(command, result) ==
    /\ config_file' = result.file
    /\ cli_log' = Logged(cli_log, [command |-> command, before |-> config_file,
                                   after |-> result.file, exit |-> result.exit,
                                   enabled |-> result.enabled])
    /\ UNCHANGED <<now, cooldown_file, env_api_key, pc, locals, stdout, history>>

\* ccguide status
CliStatus == CliRun("status", get_status(config_file))

\* ccguide enable
CliEnable(outcome) == CliRun("enable", enable(config_file, outcome))

\* ccguide disable
CliDisable(outcome) == CliRun("disable", disable(config_file, outcome))

\* ccguide toggle
CliToggle(outcome) == CliRun("toggle", toggle(config_file, outcome))

NextCli ==
    \/ CliStatus
    \/ \E outcome \in SaveOutcomes :
          \/ CliEnable(outcome)
          \/ CliDisable(outcome)
          \/ CliToggle(outcome)

\* the command run again and again on every installation
SpecCli == Init /\ [][NextCli]_vars

(***************************************************************************)
(* Properties of the hook                                                  *)
(***************************************************************************)

\* process p has loaded a config that sets this key
Loaded(p, key) == key \in DOMAIN config[p]

\* should_suggest has returned in invocation p
Returned(p) == should_suggest[p] # "None"

\* main has printed an error result in invocation p
PrintedError(p) == \E i \in DOMAIN stdout[p] : "error" \in DOMAIN stdout[p][i]

\* C1: with enable_suggestions false in the config, whatever the transcript
\* and the cooldown file, should_suggest never returns True, returns False
\* once the non-empty transcript has been processed, and the remote classifier
\* is not called in that invocation.
C1_DisabledReturnsFalse ==
    \A p \in Procs :
        (Loaded(p, "enable_suggestions") /\ config[p]["enable_suggestions"] = FALSE)
        => /\ should_suggest[p] # "True"
           /\ classifier[p].calls = 0
           /\ pc[p] \notin {"classifier", "suggestion"}
           /\ (pc[p] = "exited" /\ session_context[p] # "" => should_suggest[p] = "False")

\* C1 happens: a disabled run on the long transcript with code and errors,
\* with no cooldown file, has returned False
C1_Witness ==
    /\ pc[1] = "exited"
    /\ Loaded(1, "enable_suggestions") /\ config[1]["enable_suggestions"] = FALSE
    /\ session_context[1] = FileText("calc.txt")
    /\ ~cooldown_file.exists
    /\ should_suggest[1] = "False"

\* C2: a transcript strictly shorter than min_session_length never makes
\* should_suggest return True, whatever it contains and whatever the cooldown
\* file holds; should_suggest returns False and the remote classifier is not
\* called.
C2_ShortReturnsFalse ==
    \A p \in Procs :
        (/\ Loaded(p, "min_session_length")
         /\ assistant[p] = "CCGuide"
         /\ session_context[p] # ""
         /\ Len(session_context[p]) < config[p]["min_session_length"])
        => /\ should_suggest[p] # "True"
           /\ classifier[p].calls = 0
           /\ pc[p] \notin {"classifier", "suggestion"}
           /\ (pc[p] = "exited" => should_suggest[p] = "False")

\* C2 happens: a short transcript with code, an error and a TODO, suggestions
\* enabled and no cooldown file, has returned False
C2_Witness ==
    /\ pc[1] = "exited"
    /\ Loaded(1, "enable_suggestions") /\ config[1]["enable_suggestions"] = TRUE
    /\ session_context[1] = FileText("short.txt")
    /\ FallbackScore(CheapAnalyses[session_context[1]]) >= FallbackScoreThreshold
    /\ ~cooldown_file.exists
    /\ should_suggest[1] = "False"

\* the cooldown the config of invocation p sets
Cooldown(p) == config[p]["suggestion_cooldown"]

C7_InCooldownIff ==
    \A p \in Procs :
        cooldown_check[p].done
        => LET c == cooldown_check[p]
               text == Strip(c.file.text)
           IN  /\ c.result = (/\ c.file.exists
                              /\ c.read_ok
                              /\ IsNumeral(text)
                              /\ c.at - NumeralValue(text) < Cooldown(p))
               /\ ~PrintedError(p)
               /\ (c.result => should_suggest[p] = "False")
               /\ (~c.result => classifier[p].calls = 1)

\* C7 happens: the file holds a timestamp within the cooldown but cannot be
\* read, and the call went on to the classifier
C7_Witness ==
    /\ cooldown_check[1].done
    /\ cooldown_check[1].file.exists
    /\ IsNumeral(Strip(cooldown_check[1].file.text))
    /\ cooldown_check[1].at - NumeralValue(Strip(cooldown_check[1].file.text)) < Cooldown(1)
    /\ ~cooldown_check[1].read_ok
    /\ ~cooldown_check[1].result
    /\ pc[1] = "classifier"

\* C4: when the classifier answers, should_suggest returns True exactly when
\* the answer, stripped and upper-cased, is "YES": of the answers the
\* classifier gives here these are "YES" and " Yes\n"; "NO", "yes please" and
\* "" give False, whatever the transcript's features (the fallback score has
\* no say).
C4_YesIffLiteral ==
    \A p \in Procs :
        classifier[p].state = "replied"
        => /\ Returned(p)
           /\ (should_suggest[p] = "True") = (classifier[p].reply \in {"YES", " Yes\n"})

\* C4 happens: the classifier answered "yes please" on the transcript whose
\* fallback score is 4, and should_suggest returned False
C4_Witness ==
    /\ classifier[1].state = "replied"
    /\ classifier[1].reply = "yes please"
    /\ session_context[1] = FileText("calc.txt")
    /\ should_suggest[1] = "False"

\* C5: when the classifier call raises, should_suggest still returns, no error
\* result is printed, and with score = (1 if length > 1000) + (2 if has_code)
\* + (1 if has_errors) + (1 if complexity_indicators > 0), a number in 0..5,
\* it returns True exactly when score >= 3.
C5_FallbackScoreDecides ==
    \A p \in Procs :
        classifier[p].state = "raised"
        => LET a == CheapAnalyses[session_context[p]]
               score == (IF a.length > 1000 THEN 1 ELSE 0)
                        + (IF a.has_code THEN 2 ELSE 0)
                        + (IF a.has_errors THEN 1 ELSE 0)
                        + (IF a.complexity_indicators > 0 THEN 1 ELSE 0)
           IN  /\ score \in 0..5
               /\ Returned(p)
               /\ (should_suggest[p] = "True") = (score >= 3)
               /\ ~PrintedError(p)

\* C5 happens: the scenario of the specification: "def calculate(): ..."
\* repeated past 1000 characters with "error" three times, no cooldown file at
\* the check, the classifier fails, should_suggest returns True and the
\* timestamp is written
C5_Witness ==
    /\ classifier[1].state = "raised"
    /\ session_context[1] = FileText("calc.txt")
    /\ ~cooldown_check[1].file.exists
    /\ should_suggest[1] = "True"
    /\ cooldown_write[1].outcome = "ok"
    /\ cooldown_file = TextFile(NatToStr(cooldown_write[1].at))

\* C8: every result main prints has block = False.
C8_NeverBlocks ==
    \A p \in Procs : \A i \in DOMAIN stdout[p] : stdout[p][i].block = FALSE

\* C8 happens: a result with a suggestion has been printed
C8_Witness ==
    /\ pc[1] = "exited"
    /\ should_suggest[1] = "True"
    /\ Len(stdout[1]) = 1
    /\ "context" \in DOMAIN stdout[1][1]

\* C9: when the transcript cannot be read or is empty, process_stop_hook
\* returns exactly {"block": False}: should_suggest is not called, no remote
\* call is made and the cooldown file is neither read nor written in that
\* invocation.
C9_EmptyTranscriptEndsRun ==
    \A p \in Procs :
        (assistant[p] = "CCGuide" /\ transcript_path[p] \in {"missing.txt", "empty.txt"})
        => /\ pc[p] \in {"read", "exited"}
           /\ should_suggest[p] = "None"
           /\ classifier[p].calls = 0
           /\ generator[p].calls = 0
           /\ ~cooldown_check[p].done
           /\ cooldown_write[p].outcome = "none"
           /\ (pc[p] = "exited" => stdout[p] = << [block |-> FALSE] >>)

\* C9 happens: a run on a path that does not exist has ended
C9_Witness ==
    /\ pc[1] = "exited"
    /\ assistant[1] = "CCGuide"
    /\ transcript_path[1] = "missing.txt"
    /\ stdout[1] = << [block |-> FALSE] >>

\* C10: for a non-empty transcript the one result process_stop_hook returns is
\* {"block": False, "context": <the text of the suggestion stage>, "reason":
\* <the fixed string>} when should_suggest returned True, and exactly
\* {"block": False}, the suggestion stage not having run, when it returned
\* False.
C10_ContextIffDecision ==
    \A p \in Procs :
        (pc[p] = "exited" /\ session_context[p] # "" /\ exception[p] = "None")
        => /\ Returned(p)
           /\ Len(stdout[p]) = 1
           /\ IF should_suggest[p] = "True"
              THEN /\ stdout[p][1] = [block   |-> FALSE,
                                      context |-> suggestion[p],
                                      reason  |-> "CCGuide suggestions available"]
                   /\ generator[p].calls = 1
              ELSE /\ stdout[p][1] = [block |-> FALSE]
                   /\ generator[p].calls = 0

\* C10 happens: the generator answered with an empty text and the result
\* still carries a context and the reason
C10_Witness ==
    /\ pc[1] = "exited"
    /\ should_suggest[1] = "True"
    /\ generator[1].state = "replied" /\ generator[1].reply = ""
    /\ DOMAIN stdout[1][1] = {"block", "context", "reason"}

\* C11: an exception no stage recovers from, whether raised while the handler
\* is constructed (logging cannot be set up, no API key) or later (the
\* TypeError of a suggestion_cooldown that is a string), is caught by main:
\* the invocation ends having printed exactly {"block": False, "error":
\* "Hook handler failed: <message>"}, and never with the exception leaving
\* main.
C11_ExceptionsBecomeErrorResults ==
    \A p \in Procs :
        /\ pc[p] # "crashed"
        /\ exception[p] # "None"
           => /\ pc[p] = "exited"
              /\ stdout[p] = << [block |-> FALSE,
                                 error |-> "Hook handler failed: " \o exception[p]] >>
        /\ (pc[p] = "exited" /\ transcript_path[p] # "" /\ assistant[p] = "None")
           => exception[p] \in {"cannot set up logging",
                                "GEMINI_API_KEY not found in config or environment"}
        /\ (pc[p] = "exited" /\ session_context[p] # "" /\ should_suggest[p] = "None")
           => exception[p] = CooldownTypeError

\* C11 happens: the handler was constructed, the transcript read, and the
\* TypeError raised in the decision stage has become the error result
C11_Witness ==
    /\ pc[1] = "exited"
    /\ assistant[1] = "CCGuide"
    /\ session_context[1] = FileText("calc.txt")
    /\ exception[1] = CooldownTypeError
    /\ stdout[1] = << [block |-> FALSE,
                       error |-> "Hook handler failed: " \o CooldownTypeError] >>

\* C12: generate_contextual_suggestions returns a non-empty text on every
\* transcript that reaches it and on every outcome of the generator call: a
\* reply (an empty and a whitespace-only one included) and a failure.
C12_SuggestionNeverEmpty ==
    \A p \in Procs :
        generator[p].state \in {"replied", "raised"}
        => /\ Len(suggestion[p]) > 0
           /\ Len(stdout[p]) = 1
           /\ stdout[p][1].context = suggestion[p]

\* C12 happens: the generator answered with whitespace only
C12_Witness ==
    /\ generator[1].state = "replied"
    /\ generator[1].reply = " \n"
    /\ Len(suggestion[1]) > 0

\* the text of invocation p after its first n characters
Rest(p, n) == SubSeq(suggestion[p], n + 1, Len(suggestion[p]))

\* C13 as claimed: when the generator answers, the returned text starts with
\* the reply as it came.
C13_AsClaimed ==
    \A p \in Procs :
        generator[p].state = "replied"
        => SubSeq(suggestion[p], 1, Len(generator[p].reply)) = generator[p].reply

\* C13, amended: when the generator answers, the returned text is the reply
\* without its leading and trailing whitespace, followed by a footer that
\* names the session type, has a languages clause exactly when languages were
\* detected and a frameworks clause exactly when frameworks were detected.
C13_StrippedReplyThenFooter ==
    \A p \in Procs :
        generator[p].state = "replied"
        => LET a == session_analysis[p]
               body == Strip(generator[p].reply)
               footer == Rest(p, Len(body))
           IN  /\ SubSeq(suggestion[p], 1, Len(body)) = body
               /\ SubSeq(footer, 1, 28) = "\\n\\n---\\n*Session Analysis: "
               /\ Contains(footer, "*Session Analysis: " \o a.session_type \o "*")
               /\ Contains(footer, " *| Languages: ") = (Len(a.languages) > 0)
               /\ Contains(footer, " *| Frameworks: ") = (Len(a.frameworks) > 0)
               /\ Len(a.languages) > 0
                  => Contains(footer, " *| Languages: " \o Join(a.languages) \o "*")
               /\ Len(a.frameworks) > 0
                  => Contains(footer, " *| Frameworks: " \o Join(a.frameworks) \o "*")

\* C13 happens: a reply with whitespace around it, on a transcript with a
\* framework and no language; the text starts with the stripped reply
C13_Witness ==
    /\ generator[1].state = "replied"
    /\ generator[1].reply = " ## Suggestions\n- add tests\n"
    /\ Len(session_analysis[1].frameworks) > 0
    /\ Len(session_analysis[1].languages) = 0
    /\ SubSeq(suggestion[1], 1, 27) = "## Suggestions\n- add tests\\"

\* C14: when the generator call fails, generate_contextual_suggestions
\* returns, without an error result, the fallback text: the bug-fixing
\* template exactly for bug_fixing, the feature-development template exactly
\* for feature_development, the generic template for the five other types;
\* the technologies clause exactly when languages were detected; the
\* disclaimer at the very end.
C14_FallbackTemplateByType ==
    \A p \in Procs :
        generator[p].state = "raised"
        => LET a == session_analysis[p]
               text == suggestion[p]
               disclaimer ==
                   "*CCGuide AI suggestions temporarily unavailable - using fallback guidance*"
           IN  /\ ~PrintedError(p)
               /\ a.session_type \in
                      {"project_setup", "bug_fixing", "feature_development", "refactoring",
                       "testing", "deployment", "general_development"}
               /\ Contains(text, "**Bug Fixing Session Detected**")
                      = (a.session_type = "bug_fixing")
               /\ Contains(text, "**Feature Development Session Detected**")
                      = (a.session_type = "feature_development")
               /\ Contains(text, "**Development Session Detected**")
                      = (a.session_type \notin {"bug_fixing", "feature_development"})
               /\ Contains(text, "**Technologies Used:** ") = (Len(a.languages) > 0)
               /\ Len(a.languages) > 0
                  => Contains(text, "**Technologies Used:** " \o Join(a.languages))
               /\ Rest(p, Len(text) - Len(disclaimer)) = disclaimer

\* C14 happens: the generator failed on a refactoring session in which a
\* language was detected; the text has the generic template and the
\* technologies clause
C14_Witness ==
    /\ generator[1].state = "raised"
    /\ session_analysis[1].session_type = "refactoring"
    /\ Len(session_analysis[1].languages) > 0
    /\ Contains(suggestion[1], "- Review code for security best practices")
    /\ Contains(suggestion[1], "**Technologies Used:** python")

\* the rules of the session types, in their order of priority
SessionTypeRules ==
    << [type |-> "project_setup", words |-> {"new project", "initial", "setup", "scaffold"}],
       [type |-> "bug_fixing", words |-> {"bug", "fix", "error", "debug"}],
       [type |-> "feature_development", words |-> {"feature", "implement", "add", "create"}],
       [type |-> "refactoring", words |-> {"refactor", "cleanup", "optimize", "improve"}],
       [type |-> "testing", words |-> {"test", "testing", "spec", "coverage"}],
       [type |-> "deployment", words |-> {"deploy", "release", "production", "ci/cd"}] >>

\* C15: the session type of every text, the empty one included, is the type
\* of the first rule, in the order project_setup, bug_fixing,
\* feature_development, refactoring, testing, deployment, one of whose words
\* is in the lower-cased text, and general_development when no rule has one.
C15_FirstRuleWins ==
    \A p \in Procs :
        session_analysis[p] # NoAnalysis
        => LET lower == Lower(session_context[p])
               matching == {i \in DOMAIN SessionTypeRules :
                               \E w \in SessionTypeRules[i].words : Contains(lower, w)}
           IN  session_analysis[p].session_type =
                   IF matching = {} THEN "general_development"
                   ELSE SessionTypeRules[CHOOSE i \in matching :
                                             \A j \in matching : i <= j].type

\* C15 happens: a text with a word of bug_fixing before a word of
\* project_setup, in capitals, is a project_setup session
C15_Witness ==
    /\ session_context[1] = "BUG Setup"
    /\ session_analysis[1].session_type = "project_setup"

\* C16: in one invocation the classifier is called at most once and the
\* generator at most once; a failed call is not made again: after a failure
\* of the classifier should_suggest has returned, after a failure of the
\* generator the invocation has ended; the generator is called only once the
\* one classifier call has ended, by a reply or by a failure, and the decision
\* was True.
C16_OneCallEachInOrder ==
    \A p \in Procs :
        /\ classifier[p].calls <= 1
        /\ generator[p].calls <= 1
        /\ classifier[p].state = "raised" => (classifier[p].calls = 1 /\ Returned(p))
        /\ generator[p].state = "raised" => (generator[p].calls = 1 /\ pc[p] = "exited")
        /\ (pc[p] = "suggestion" \/ generator[p].calls > 0)
           => /\ classifier[p].calls = 1
              /\ classifier[p].state \in {"replied", "raised"}
              /\ should_suggest[p] = "True"
        /\ pc[p] = "classifier" => (classifier[p].state = "pending" /\ generator[p].calls = 0)

\* C16 happens: both remote calls failed, each was made once, and the
\* invocation has ended
C16_Witness ==
    /\ pc[1] = "exited"
    /\ classifier[1].state = "raised" /\ classifier[1].calls = 1
    /\ generator[1].state = "raised" /\ generator[1].calls = 1

\* x is one of the names in seq
Has(seq, x) == \E k \in DOMAIN seq : seq[k] = x

\* every entry of table one of whose indicators is in the text, in some
\* letter case, has its name in detected
CaseInsensitive(table, text_lower, detected) ==
    \A i \in DOMAIN table :
        (\E ind \in table[i].indicators : Contains(text_lower, Lower(ind)))
        => Has(detected, table[i].name)

\* C20: a text that holds an indicator of a language, a framework, a tool or
\* an issue, in any letter case, has the label of that indicator in the
\* detected languages, frameworks, tools or issues.
C20_AsClaimed ==
    \A p \in Procs :
        session_analysis[p] # NoAnalysis
        => LET lower == Lower(session_context[p])
               a == session_analysis[p]
           IN  /\ CaseInsensitive(LanguageIndicators, lower, a.languages)
               /\ CaseInsensitive(FrameworkIndicators, lower, a.frameworks)
               /\ CaseInsensitive(ToolIndicators, lower, a.tools)
               /\ CaseInsensitive(IssuePatterns, lower, a.issues)

\* invocation p made its cooldown check with the file read, decided True and
\* wrote the timestamp
Suggested(p) ==
    /\ cooldown_check[p].done /\ cooldown_check[p].read_ok
    /\ ~cooldown_check[p].result
    /\ should_suggest[p] = "True"
    /\ cooldown_write[p].outcome = "ok"

\* C17: the cooldown file is not locked between the check and the write. An
\* invocation that reads the file after the other has written it finds itself
\* in cooldown, so when two concurrent invocations both decide True, both
\* having read the file and both writing it, each made its check before
\* either wrote: both observed "not in cooldown".
C17_BothCheckedBeforeEitherWrote ==
    \A p \in Procs : \A q \in Procs \ {p} :
        (Suggested(p) /\ Suggested(q))
        => /\ cooldown_check[p].recorded_at = -1
           /\ cooldown_check[q].recorded_at = -1
           /\ cooldown_write[p].at - cooldown_write[q].at < Cooldown(p)

\* C17 happens: with no cooldown file to begin with, the two invocations both
\* observed "not in cooldown", both decided True, both wrote the file and
\* both printed a suggestion, within one cooldown window
C17_Witness ==
    /\ Suggested(1) /\ Suggested(2)
    /\ ~cooldown_check[1].file.exists /\ ~cooldown_check[2].file.exists
    /\ pc[1] = "exited" /\ pc[2] = "exited"
    /\ "context" \in DOMAIN stdout[1][1] /\ "context" \in DOMAIN stdout[2][1]
    /\ cooldown_write[2].at - cooldown_write[1].at \in 0..(Cooldown(1) - 1)

\* C18: the cooldown file changes only in a step in which should_suggest
\* returns True, and update_cooldown is called in no other step; a step in
\* which should_suggest returns False (suggestions disabled, transcript too
\* short, in cooldown, a reply other than YES, a fallback score below 3)
\* leaves the file as it was.
C18_WrittenOnlyOnTrue ==
    [][\A p \in Procs :
          /\ (cooldown_file' # cooldown_file \/ cooldown_write'[p] \notin {cooldown_write[p], NoWrite})
             => \E q \in Procs : should_suggest[q] = "None" /\ should_suggest'[q] = "True"
          /\ (should_suggest[p] = "None" /\ should_suggest'[p] = "False")
             => (cooldown_file' = cooldown_file /\ cooldown_write'[p] = NoWrite)]_vars

\* C18 happens: the classifier answered NO on the transcript whose fallback
\* score is 4; should_suggest returned False and the file, which held a
\* text, is as the cooldown check found it
C18_Witness ==
    /\ classifier[1].state = "replied" /\ classifier[1].reply = "NO"
    /\ session_context[1] = FileText("calc.txt")
    /\ should_suggest[1] = "False"
    /\ cooldown_write[1] = NoWrite
    /\ cooldown_check[1].file.exists
    /\ cooldown_file = cooldown_check[1].file

\* C19: with no API key, in the config file or in the environment (None or
\* an empty string), the constructor raises the ValueError of setup_gemini
\* to main before an engine exists: the handler is never constructed, no
\* transcript is read, should_suggest is not called, no remote call is made
\* and the cooldown file is neither read nor written.
C19_MissingKeyIsFatal ==
    \A p \in Procs :
        (Loaded(p, "gemini_api_key") /\ config[p]["gemini_api_key"] \in {None, ""})
        => /\ assistant[p] = "None"
           /\ pc[p] = "exited"
           /\ exception[p] = "GEMINI_API_KEY not found in config or environment"
           /\ session_context[p] = ""
           /\ should_suggest[p] = "None"
           /\ classifier[p].calls = 0 /\ generator[p].calls = 0
           /\ ~cooldown_check[p].done
           /\ cooldown_write[p] = NoWrite

\* C19 happens: no config file and no GEMINI_API_KEY; main was given a
\* transcript and the constructor raised
C19_Witness ==
    /\ config_file = NoConfigFile /\ env_api_key = None
    /\ transcript_path[1] = "calc.txt"
    /\ pc[1] = "exited"
    /\ assistant[1] = "None"
    /\ exception[1] = "GEMINI_API_KEY not found in config or environment"

\* C21: the clock never going back, a should_suggest call that checks the
\* cooldown suggestion_cooldown seconds or more after the last timestamp
\* update_cooldown wrote is not in cooldown, whether or not the file can be
\* read, and goes on to the classifier; when the classifier answers YES it
\* returns True again.
C21_CooldownExpires ==
    \A p \in Procs :
        (/\ cooldown_check[p].done
         /\ cooldown_check[p].recorded_at # -1
         /\ cooldown_check[p].at - cooldown_check[p].recorded_at >= Cooldown(p))
        => /\ cooldown_check[p].file = TextFile(NatToStr(cooldown_check[p].recorded_at))
           /\ ~cooldown_check[p].result
           /\ classifier[p].calls = 1
           /\ (classifier[p].state = "replied" /\ classifier[p].reply = "YES")
              => should_suggest[p] = "True"

\* C21 happens: exactly suggestion_cooldown seconds after a recorded
\* suggestion the file is read, the call is not in cooldown, the classifier
\* answers YES and should_suggest returns True
C21_Witness ==
    /\ cooldown_check[1].done
    /\ cooldown_check[1].read_ok
    /\ cooldown_check[1].recorded_at # -1
    /\ cooldown_check[1].at - cooldown_check[1].recorded_at = Cooldown(1)
    /\ classifier[1].state = "replied" /\ classifier[1].reply = "YES"
    /\ should_suggest[1] = "True"

(***************************************************************************)
(* Properties of the command                                               *)
(***************************************************************************)

\* the effective value of the enable flag in a config object: an absent key
\* counts as enabled
Effective(data) == Get(data, "enable_suggestions", TRUE)

\* the runs of the log that are this command and returned
Ran(i, command) ==
    /\ i \in DOMAIN cli_log
    /\ cli_log[i].command = command
    /\ cli_log[i].exit = 0

\* C22: for every content of the config file, the 'enabled' value that
\* get_status reports equals the value the enable check of should_suggest
\* reads from the config the hook loads from the same file. The code does
\* not do this: the formula is violated where the key is absent.
C22_AsClaimed ==
    \A i \in DOMAIN cli_log :
        Ran(i, "status")
        => cli_log[i].enabled
           = ~SuggestionsDisabled(load_config(cli_log[i].before, env_api_key))

\* C23: a toggle that returns has stored in enable_suggestions the negation
\* of the effective value before the call (an absent key counting as
\* enabled) and has left every other key as it was; two toggles that return
\* one after the other restore the effective value.
C23_ToggleFlips ==
    /\ \A i \in DOMAIN cli_log :
          Ran(i, "toggle")
          => LET before == cli_log[i].before.data
                 after == cli_log[i].after.data
             IN  /\ cli_log[i].before.kind = "json"
                 /\ cli_log[i].after.kind = "json"
                 /\ "enable_suggestions" \in DOMAIN after
                 /\ after["enable_suggestions"] = ~Effective(before)
                 /\ DOMAIN after = DOMAIN before \cup {"enable_suggestions"}
                 /\ \A k \in DOMAIN before \ {"enable_suggestions"} :
                       after[k] = before[k]
                 /\ i = Len(cli_log) => config_file = cli_log[i].after
    /\ \A i \in DOMAIN cli_log :
          (Ran(i, "toggle") /\ Ran(i + 1, "toggle"))
          => /\ cli_log[i + 1].before = cli_log[i].after
             /\ Effective(cli_log[i + 1].after.data) = Effective(cli_log[i].before.data)

\* C23 happens: toggle ran twice on a config file that has other keys and
\* no enable_suggestions; the first run stored false, the second true
C23_Witness ==
    /\ Len(cli_log) >= 2
    /\ Ran(Len(cli_log) - 1, "toggle") /\ Ran(Len(cli_log), "toggle")
    /\ DOMAIN cli_log[Len(cli_log) - 1].before.data = {"gemini_api_key", "min_session_length"}
    /\ cli_log[Len(cli_log) - 1].after.data["enable_suggestions"] = FALSE
    /\ config_file.kind = "json"
    /\ config_file.data["enable_suggestions"] = TRUE
    /\ config_file.data["min_session_length"] = LongMinLength

\* C24: every invocation of main in which each remote call returns or
\* raises terminates, and has then printed exactly one JSON result: nothing
\* is printed before main returns, one result has been printed when it has
\* returned, and a started invocation does return, whichever path it takes.
C24_ExactlyOneResult ==
    /\ [](\A p \in Procs : Len(stdout[p]) = IF pc[p] = "exited" THEN 1 ELSE 0)
    /\ \A p \in Procs : (pc[p] # "idle") ~> (pc[p] = "exited")

\* C24 happens: both remote calls raised, the fallbacks decided and wrote the
\* suggestion, and main returned with the one result printed
C24_Witness ==
    /\ pc[1] = "exited"
    /\ classifier[1].state = "raised"
    /\ generator[1].state = "raised"
    /\ should_suggest[1] = "True"
    /\ Len(stdout[1]) = 1
    /\ stdout[1][1] = SuggestionResult(suggestion[1])
    /\ suggestion[1] # ""

====
